---------------------------- MODULE Spec2Model ----------------------------
(***************************************************************************)
(* Model of the style-mutation engine of Office-Word-MCP-Server:           *)
(*   word_document_server/core/tables.py        (table borders, shading)   *)
(*   word_document_server/tools/format_tools.py (the exposed operations)   *)
(*                                                                         *)
(* Strings are sequences of one-character strings, so that the string      *)
(* conversions of the code (lstrip, upper, lower, len, slicing, int(s,16), *)
(* embedding in an XML attribute) are computed and not assumed.            *)
(* Python indices are 0-based; sequences here are 1-based, and every       *)
(* operator that takes a Python index adds 1 when it reads the sequence.   *)
(***************************************************************************)
EXTENDS Integers, Sequences, FiniteSets, TLC

VARIABLES
    file,   \* the .docx file: whether it exists and is writeable, and its content
    mem,    \* the Document object in memory that the last call worked on
    last,   \* the last call: operation, arguments and what it returned
    calls   \* number of calls made so far

vars == <<file, mem, last, calls>>

(***************************************************************************)
(* Strings                                                                 *)
(***************************************************************************)
LowerLetters == <<"a","b","c","d","e","f","g","h","i","j","k","l","m",
                  "n","o","p","q","r","s","t","u","v","w","x","y","z">>
UpperLetters == <<"A","B","C","D","E","F","G","H","I","J","K","L","M",
                  "N","O","P","Q","R","S","T","U","V","W","X","Y","Z">>
HexChars == <<"0","1","2","3","4","5","6","7","8","9","A","B","C","D","E","F">>

IndexOf(seq, c) == IF \E i \in 1..Len(seq) : seq[i] = c
                   THEN CHOOSE i \in 1..Len(seq) : seq[i] = c
                   ELSE 0

\* str.upper() and str.lower(), character by character
UpperChar(c) == IF IndexOf(LowerLetters, c) > 0
                THEN UpperLetters[IndexOf(LowerLetters, c)] ELSE c
LowerChar(c) == IF IndexOf(UpperLetters, c) > 0
                THEN LowerLetters[IndexOf(UpperLetters, c)] ELSE c
Upper(s) == [i \in 1..Len(s) |-> UpperChar(s[i])]
Lower(s) == [i \in 1..Len(s) |-> LowerChar(s[i])]

\* str.lstrip(ch): every leading ch is removed, not only the first
RECURSIVE LStrip(_, _)
LStrip(s, ch) == IF s # <<>> /\ Head(s) = ch THEN LStrip(Tail(s), ch) ELSE s

\* Python slice s[a:b] for 0 <= a <= b (clipped to the length of s)
Slice(s, a, b) ==
    LET hi == IF b < Len(s) THEN b ELSE Len(s)
    IN  IF a >= hi THEN <<>> ELSE SubSeq(s, a + 1, hi)

IsHexChar(c) == IndexOf(HexChars, UpperChar(c)) > 0
IsHexString(s) == \A i \in 1..Len(s) : IsHexChar(s[i])

\* int(s, 16) for strings of hex digits; IntOk says whether int() accepts s.
\* (Signs, blanks, underscores and a 0x prefix are outside the alphabet used.)
IntOk(s) == s # <<>> /\ IsHexString(s)
RECURSIVE Int16(_)
Int16(s) == IF s = <<>> THEN 0
            ELSE 16 * Int16(SubSeq(s, 1, Len(s) - 1))
                 + (IndexOf(HexChars, UpperChar(s[Len(s)])) - 1)

\* f"{n:02X}" for 0 <= n <= 255
Hex2(n) == <<HexChars[(n \div 16) + 1], HexChars[(n % 16) + 1]>>

\* A value can be written between the quotes of an XML attribute and parsed
\* back by parse_xml only if it holds none of these characters.
XmlSpecial == {"<", "&", "\""}
XmlSafe(s) == \A i \in 1..Len(s) : s[i] \notin XmlSpecial

RECURSIVE Concat(_)
Concat(ss) == IF ss = <<>> THEN <<>> ELSE Head(ss) \o Concat(Tail(ss))

(***************************************************************************)
(* Markup elements: a tag, an attribute map and the child elements.        *)
(***************************************************************************)
NoAttrs == [k \in {} |-> <<>>]
Elem(tag, attrs, children) == [tag |-> tag, attrs |-> attrs, children |-> children]

\* BaseOxmlElement.first_child_found_in / find: index of the first child
\* with the tag, 0 when there is none
FirstChild(children, tag) ==
    IF \E i \in 1..Len(children) : children[i].tag = tag
    THEN CHOOSE i \in 1..Len(children) :
            /\ children[i].tag = tag
            /\ \A j \in 1..(i - 1) : children[j].tag # tag
    ELSE 0

RemoveAt(seq, i) == SubSeq(seq, 1, i - 1) \o SubSeq(seq, i + 1, Len(seq))

ChildrenWithTag(children, tag) ==
    {i \in 1..Len(children) : children[i].tag = tag}


(***************************************************************************)
(* Document model (the host library's objects, as far as the code reads    *)
(* and writes them).                                                       *)
(*   run        [text, rPr]      rPr maps the formatting set on the run    *)
(*   paragraph  sequence of runs                                           *)
(*   cell       [tcPr, paragraphs]  tcPr: the children of <w:tcPr>         *)
(*   table      sequence of rows, a row a sequence of cells                *)
(*   document   [paragraphs, tables, styles]                               *)
(*   file       [exists, writeable, content]   content: a document         *)
(***************************************************************************)
NoFormat == [k \in {} |-> <<>>]
Run(text, rPr) == [text |-> text, rPr |-> rPr]

\* Paragraph.text: the concatenation of the runs' text
ParagraphText(paragraph) ==
    Concat([i \in 1..Len(paragraph) |-> paragraph[i].text])

\* A color argument: a string, an RGBColor object, or None
StrColor(s) == [kind |-> "str", s |-> s, rgb |-> <<>>]
RgbColor(r, g, b) == [kind |-> "rgb", s |-> <<>>, rgb |-> <<r, g, b>>]
NoneColor == [kind |-> "none", s |-> <<>>, rgb |-> <<>>]

\* RGBColor(r, g, b) as stored in the run: str(RGBColor) is 6 upper hex digits
RgbString(r, g, b) == Hex2(r) \o Hex2(g) \o Hex2(b)

(***************************************************************************)
(* core/tables.py                                                          *)
(***************************************************************************)
EdgeKeys == {"top", "left", "bottom", "right"}

\* kwargs.get(key, default) on an ordered list of <<key, value>> pairs
KwGet(kwargs, key, default) ==
    IF \E i \in 1..Len(kwargs) : kwargs[i][1] = key
    THEN kwargs[CHOOSE i \in 1..Len(kwargs) : kwargs[i][1] = key][2]
    ELSE default

\* Variant: an earlier edge of the same name is replaced by the new one
AppendBorderEdge_ReplaceSameName(tcPr, key, kwargs) ==
    LET element == Elem(key,
                        [val   |-> KwGet(kwargs, "val", <<"s","i","n","g","l","e">>),
                         sz    |-> KwGet(kwargs, "sz", <<"4">>),
                         space |-> KwGet(kwargs, "space", <<"0">>),
                         color |-> KwGet(kwargs, "color", <<"a","u","t","o">>)],
                        <<>>)
        found == FirstChild(tcPr, "tcBorders")
        tcPr1 == IF found = 0
                 THEN Append(tcPr, Elem("tcBorders", NoAttrs, <<>>))
                 ELSE tcPr
        at == FirstChild(tcPr1, "tcBorders")
        kept == SelectSeq(tcPr1[at].children, LAMBDA e : e.tag # key)
    IN  [tcPr1 EXCEPT ![at].children = Append(kept, element)]

\* One pass of the loop body of set_cell_border for an edge key: build the edge
\* element, find the first tcBorders child or append a new one, append the edge.
AppendBorderEdge(tcPr, key, kwargs) ==
    LET element == Elem(key,
                        [val   |-> KwGet(kwargs, "val", <<"s","i","n","g","l","e">>),
                         sz    |-> KwGet(kwargs, "sz", <<"4">>),
                         space |-> KwGet(kwargs, "space", <<"0">>),
                         color |-> KwGet(kwargs, "color", <<"a","u","t","o">>)],
                        <<>>)
        found == FirstChild(tcPr, "tcBorders")
        tcPr1 == IF found = 0
                 THEN Append(tcPr, Elem("tcBorders", NoAttrs, <<>>))
                 ELSE tcPr
        at == FirstChild(tcPr1, "tcBorders")
    IN  [tcPr1 EXCEPT ![at].children = Append(@, element)]

RECURSIVE SetCellBorderFrom(_, _, _)
SetCellBorderFrom(tcPr, kwargs, i) ==
    IF i > Len(kwargs) THEN tcPr
    ELSE IF kwargs[i][1] \in EdgeKeys
         THEN SetCellBorderFrom(AppendBorderEdge(tcPr, kwargs[i][1], kwargs), kwargs, i + 1)
         ELSE SetCellBorderFrom(tcPr, kwargs, i + 1)

\* set_cell_border(cell, **kwargs): kwargs in the order the caller wrote them
SetCellBorder(cell, kwargs) ==
    [cell EXCEPT !.tcPr = SetCellBorderFrom(cell.tcPr, kwargs, 1)]

\* Variant: the keyword is looked up as written, without lower()
ValMap_CaseSensitive(border_style) ==
    LET k == border_style
    IN  IF k = <<"n","o","n","e">> THEN <<"n","i","l">>
        ELSE IF k = <<"d","o","u","b","l","e">> THEN <<"d","o","u","b","l","e">>
        ELSE IF k = <<"t","h","i","c","k">> THEN <<"t","h","i","c","k">>
        ELSE <<"s","i","n","g","l","e">>

\* val_map.get(border_style.lower(), 'single')
ValMap(border_style) ==
    LET k == Lower(border_style)
    IN  IF k = <<"n","o","n","e">> THEN <<"n","i","l">>
        ELSE IF k = <<"s","i","n","g","l","e">> THEN <<"s","i","n","g","l","e">>
        ELSE IF k = <<"d","o","u","b","l","e">> THEN <<"d","o","u","b","l","e">>
        ELSE IF k = <<"t","h","i","c","k">> THEN <<"t","h","i","c","k">>
        ELSE <<"s","i","n","g","l","e">>

BoldRuns(cell) ==
    [cell EXCEPT !.paragraphs =
        [p \in 1..Len(cell.paragraphs) |->
            [q \in 1..Len(cell.paragraphs[p]) |->
                [cell.paragraphs[p][q] EXCEPT !.rPr = ("bold" :> TRUE) @@ @]]]]

MapCells(table, f(_, _, _)) ==
    [i \in 1..Len(table) |-> [j \in 1..Len(table[i]) |-> f(table[i][j], i, j)]]

\* apply_table_style, lines 55-61: bold every run of the header row
StyleHeader(table, has_header_row) ==
    LET f(cell, i, j) == IF has_header_row /\ i = 1 THEN BoldRuns(cell) ELSE cell
    IN  MapCells(table, f)

\* apply_table_style, lines 64-84: four edges on every cell
StyleBorders(table, border_style) ==
    LET kwargs == << <<"top", TRUE>>, <<"bottom", TRUE>>, <<"left", TRUE>>,
                     <<"right", TRUE>>, <<"val", ValMap(border_style)>>,
                     <<"color", <<"0","0","0","0","0","0">> >> >>
        f(cell, i, j) == SetCellBorder(cell, kwargs)
    IN  IF border_style # <<>> THEN MapCells(table, f) ELSE table

\* apply_table_style, lines 87-101: a <w:shd w:fill=color/> is appended to the
\* cell's tcPr for every color of the grid that falls on a cell; a color that
\* breaks the XML is skipped.
StyleShading(table, shading) ==
    LET f(cell, i, j) ==
            IF i <= Len(shading) /\ j <= Len(shading[i]) /\ XmlSafe(shading[i][j])
            THEN [cell EXCEPT !.tcPr =
                     Append(@, Elem("shd", [fill |-> shading[i][j]], <<>>))]
            ELSE cell
    IN  MapCells(table, f)

\* apply_table_style(table, has_header_row, border_style, shading)
ApplyTableStyle(table, has_header_row, border_style, shading) ==
    [table |-> StyleShading(StyleBorders(StyleHeader(table, has_header_row),
                                         border_style), shading),
     ok |-> TRUE]

\* set_cell_shading, lines 172-181: the fill attribute, if one is written
FillAttr(fill_color) ==
    IF fill_color.kind = "str" /\ fill_color.s # <<>>
    THEN LET f == Upper(LStrip(fill_color.s, "#"))
         IN  IF Len(f) = 6 THEN [fill |-> f] ELSE NoAttrs
    ELSE IF fill_color.kind = "rgb"
         THEN [fill |-> RgbString(fill_color.rgb[1], fill_color.rgb[2],
                                  fill_color.rgb[3])]
         ELSE NoAttrs

\* set_cell_shading(cell, fill_color, pattern, pattern_color): the first shd
\* child is removed, the attributes are written into an XML string, and the
\* parsed element is appended; parse_xml raising is caught and reported False
\* (the removal has happened by then).
SetCellShading(cell, fill_color, pattern, pattern_color) ==
    LET existing_shd == FirstChild(cell.tcPr, "shd")
        tc_pr == IF existing_shd # 0 THEN RemoveAt(cell.tcPr, existing_shd)
                 ELSE cell.tcPr
        shd_attrs == [val |-> pattern, color |-> pattern_color] @@ FillAttr(fill_color)
        parses == \A k \in DOMAIN shd_attrs : XmlSafe(shd_attrs[k])
    IN  IF parses
        THEN [cell |-> [cell EXCEPT !.tcPr = Append(tc_pr, Elem("shd", shd_attrs, <<>>))],
              ok |-> TRUE]
        ELSE [cell |-> [cell EXCEPT !.tcPr = tc_pr], ok |-> FALSE]

sCLEAR == <<"c","l","e","a","r">>
sAUTO == <<"a","u","t","o">>

\* Variant: the parity is taken of the 1-based row number
ApplyAlternatingRowShading_OneBased(table, color1, color2) ==
    LET f(cell, i, j) ==
            SetCellShading(cell, IF i % 2 = 0 THEN color1 ELSE color2,
                           sCLEAR, sAUTO).cell
    IN  [table |-> MapCells(table, f), ok |-> TRUE]

\* apply_alternating_row_shading(table, color1, color2); i is the Python index
ApplyAlternatingRowShading(table, color1, color2) ==
    LET f(cell, i, j) ==
            SetCellShading(cell, IF (i - 1) % 2 = 0 THEN color1 ELSE color2,
                           sCLEAR, sAUTO).cell
    IN  [table |-> MapCells(table, f), ok |-> TRUE]

\* highlight_header_row, lines 243-252: the font color a run gets, if any
HeaderTextColor(text_color) ==
    IF text_color = <<>> \/ text_color = sAUTO THEN NoFormat
    ELSE LET t == LStrip(text_color, "#")
             r == Slice(t, 0, 2)
             g == Slice(t, 2, 4)
             b == Slice(t, 4, 6)
         IN  IF IntOk(r) /\ IntOk(g) /\ IntOk(b)
             THEN [color |-> RgbString(Int16(r), Int16(g), Int16(b))]
             ELSE NoFormat

\* highlight_header_row(table, header_color, text_color)
HighlightHeaderRow(table, header_color, text_color) ==
    LET fmt == ("bold" :> TRUE) @@ HeaderTextColor(text_color)
        f(cell, i, j) ==
            IF i # 1 THEN cell
            ELSE LET shaded == SetCellShading(cell, header_color, sCLEAR, sAUTO).cell
                 IN  [shaded EXCEPT !.paragraphs =
                        [p \in 1..Len(shaded.paragraphs) |->
                            [q \in 1..Len(shaded.paragraphs[p]) |->
                                [shaded.paragraphs[p][q] EXCEPT !.rPr = fmt @@ @]]]]
    IN  [table |-> MapCells(table, f), ok |-> TRUE]

\* Variant: the lower bounds are not checked, so that a negative index counts
\* from the end as Python indexing does
SetCellShadingByPosition_NoLowerBound(table, row_index, col_index, fill_color, pattern) ==
    LET ri == IF row_index < 0 THEN Len(table) + row_index + 1 ELSE row_index + 1
    IN  IF row_index < Len(table) /\ ri >= 1 /\ col_index < Len(table[ri])
           /\ (col_index < 0 => Len(table[ri]) + col_index + 1 >= 1)
        THEN LET ci == IF col_index < 0 THEN Len(table[ri]) + col_index + 1
                       ELSE col_index + 1
                 r == SetCellShading(table[ri][ci], fill_color, pattern, sAUTO)
             IN  [table |-> [table EXCEPT ![ri][ci] = r.cell], ok |-> r.ok]
        ELSE [table |-> table, ok |-> FALSE]

\* set_cell_shading_by_position(table, row_index, col_index, fill_color, pattern)
SetCellShadingByPosition(table, row_index, col_index, fill_color, pattern) ==
    IF /\ 0 <= row_index /\ row_index < Len(table)
       /\ 0 <= col_index /\ col_index < Len(table[row_index + 1])
    THEN LET r == SetCellShading(table[row_index + 1][col_index + 1],
                                 fill_color, pattern, sAUTO)
         IN  [table |-> [table EXCEPT ![row_index + 1][col_index + 1] = r.cell],
              ok |-> r.ok]
    ELSE [table |-> table, ok |-> FALSE]

(***************************************************************************)
(* tools/format_tools.py: the exposed operations.  Each is an operator     *)
(* from the file, the Document object left in memory by the call before,   *)
(* and the arguments, to what the call returns and leaves behind:          *)
(*   [result, opened, saved, mem]                                          *)
(* result is the message returned (its fixed part), opened says whether    *)
(* Document(filename) was reached, saved whether doc.save(filename) was,   *)
(* and mem is the Document object after the call.                          *)
(***************************************************************************)
\* An argument declared int as it arrives: an int, a decimal string such as
\* "1" (kind "str": int() accepts it), something int() rejects, or None
IntArg(n) == [kind |-> "int", v |-> n]
StrArg(n) == [kind |-> "str", v |-> n]
BadArg == [kind |-> "bad", v |-> 0]
NoneArg == [kind |-> "none", v |-> 0]
\* int(x) succeeds / its value
Coercible(x) == x.kind \in {"int", "str"}
IntOf(x) == x.v

Outcome(result, opened, saved, m) ==
    [result |-> result, opened |-> opened, saved |-> saved, mem |-> m]

\* Variant: the writeability of the file is not checked
FileCheck_NoWriteable(f) ==
    IF ~f.exists THEN "does not exist" ELSE "ok"

\* os.path.exists(filename) and check_file_writeable(filename), as every
\* operation calls them before it opens the document
FileCheck(f) ==
    IF ~f.exists THEN "does not exist"
    ELSE IF ~f.writeable THEN "Cannot modify document"
    ELSE "ok"

\* color_map of format_text: the named colors
ColorMap(name) ==
    CASE name = <<"r","e","d">> -> RgbString(255, 0, 0)
      [] name = <<"b","l","u","e">> -> RgbString(0, 0, 255)
      [] name = <<"g","r","e","e","n">> -> RgbString(0, 128, 0)
      [] name = <<"y","e","l","l","o","w">> -> RgbString(255, 255, 0)
      [] name = <<"b","l","a","c","k">> -> RgbString(0, 0, 0)
      [] name = <<"g","r","a","y">> -> RgbString(128, 128, 128)
      [] name = <<"w","h","i","t","e">> -> RgbString(255, 255, 255)
      [] name = <<"p","u","r","p","l","e">> -> RgbString(128, 0, 128)
      [] name = <<"o","r","a","n","g","e">> -> RgbString(255, 165, 0)
      [] OTHER -> <<>>

\* format_text, lines 95-118: the font color of the target run: the named color,
\* else RGBColor.from_string(color) (which reads color[:2], color[2:4] and
\* color[4:] as hex numbers up to 255), else black
ResolveColor(color) ==
    IF ColorMap(Lower(color)) # <<>> THEN ColorMap(Lower(color))
    ELSE LET r == Slice(color, 0, 2)
             g == Slice(color, 2, 4)
             b == Slice(color, 4, Len(color))
         IN  IF /\ IntOk(r) /\ IntOk(g) /\ IntOk(b)
                /\ Int16(r) <= 255 /\ Int16(g) <= 255 /\ Int16(b) <= 255
             THEN RgbString(Int16(r), Int16(g), Int16(b))
             ELSE RgbString(0, 0, 0)

\* format_text, lines 89-122: the formatting set on the target run.  fmt maps
\* the keyword arguments that were given (an absent key is None).
TargetFormat(fmt, font_size) ==
    LET given(k) == IF k \in DOMAIN fmt THEN (k :> fmt[k]) ELSE NoFormat
    IN  given("bold") @@ given("italic") @@ given("underline")
        @@ (IF "color" \in DOMAIN fmt /\ fmt.color # <<>>
            THEN [color |-> ResolveColor(fmt.color)] ELSE NoFormat)
        @@ (IF font_size.kind # "none" /\ IntOf(font_size) # 0
            THEN [size |-> IntOf(font_size)] ELSE NoFormat)
        @@ (IF "font_name" \in DOMAIN fmt /\ fmt.font_name # <<>>
            THEN [name |-> fmt.font_name] ELSE NoFormat)

\* Variant: an empty or reversed range is let through
InvalidTextPositions_EmptyAllowed(text, start_pos, end_pos) ==
    start_pos < 0 \/ end_pos > Len(text)

\* format_text, line 73
InvalidTextPositions(text, start_pos, end_pos) ==
    start_pos < 0 \/ end_pos > Len(text) \/ start_pos >= end_pos

\* Variant: the text after the target is taken from one character too far
FormatRuns_SuffixOffByOne(paragraph, start_pos, end_pos, fmt, font_size) ==
    LET text == ParagraphText(paragraph)
        cleared == [i \in 1..Len(paragraph) |-> [paragraph[i] EXCEPT !.text = <<>>]]
        run_before == IF start_pos > 0
                      THEN <<Run(Slice(text, 0, start_pos), NoFormat)>> ELSE <<>>
        run_target == Run(Slice(text, start_pos, end_pos), TargetFormat(fmt, font_size))
        run_after == IF end_pos < Len(text)
                     THEN <<Run(Slice(text, end_pos + 1, Len(text)), NoFormat)>> ELSE <<>>
    IN  cleared \o run_before \o <<run_target>> \o run_after

\* format_text, lines 77-126: run.clear() empties each run and keeps it, with
\* its formatting, in the paragraph; add_run appends new runs after them.
FormatRuns(paragraph, start_pos, end_pos, fmt, font_size) ==
    LET text == ParagraphText(paragraph)
        cleared == [i \in 1..Len(paragraph) |-> [paragraph[i] EXCEPT !.text = <<>>]]
        run_before == IF start_pos > 0
                      THEN <<Run(Slice(text, 0, start_pos), NoFormat)>> ELSE <<>>
        run_target == Run(Slice(text, start_pos, end_pos), TargetFormat(fmt, font_size))
        run_after == IF end_pos < Len(text)
                     THEN <<Run(Slice(text, end_pos, Len(text)), NoFormat)>> ELSE <<>>
    IN  cleared \o run_before \o <<run_target>> \o run_after

\* format_text(filename, paragraph_index, start_pos, end_pos, ...)
FormatText(f, m0, a) ==
    IF ~(/\ Coercible(a.paragraph_index) /\ Coercible(a.start_pos)
         /\ Coercible(a.end_pos)
         /\ (a.font_size.kind # "none" => Coercible(a.font_size)))
    THEN Outcome("Invalid parameter", FALSE, FALSE, m0)
    ELSE IF FileCheck(f) # "ok" THEN Outcome(FileCheck(f), FALSE, FALSE, m0)
    ELSE LET d == f.content
             pi == IntOf(a.paragraph_index)
             sp == IntOf(a.start_pos)
             ep == IntOf(a.end_pos)
         IN  IF pi < 0 \/ pi >= Len(d.paragraphs)
             THEN Outcome("Invalid paragraph index", TRUE, FALSE, d)
             ELSE IF InvalidTextPositions(ParagraphText(d.paragraphs[pi + 1]), sp, ep)
             THEN Outcome("Invalid text positions", TRUE, FALSE, d)
             ELSE Outcome("formatted successfully", TRUE, TRUE,
                          [d EXCEPT !.paragraphs[pi + 1] =
                              FormatRuns(@, sp, ep, a.fmt, a.font_size)])

\* core/styles.py create_style, which is not among the sources: the named
\* style is added to the document with its base style and font properties
CreateStyle(d, style_name, base_style, font_properties) ==
    [d EXCEPT !.styles = @ \cup {[name |-> style_name, base |-> base_style,
                                  font |-> font_properties]}]

\* create_custom_style(filename, style_name, ...): props maps the keyword
\* arguments that were given
CreateCustomStyle(f, m0, a) ==
    IF FileCheck(f) # "ok" THEN Outcome(FileCheck(f), FALSE, FALSE, m0)
    ELSE Outcome("created successfully", TRUE, TRUE,
                 CreateStyle(f.content, a.style_name, a.base_style, a.props))

\* format_table(filename, table_index, has_header_row, border_style, shading):
\* table_index is compared as it arrives, so anything but an int raises
\* TypeError, which the handler catches
FormatTable(f, m0, a) ==
    IF FileCheck(f) # "ok" THEN Outcome(FileCheck(f), FALSE, FALSE, m0)
    ELSE LET d == f.content
         IN  IF a.table_index.kind # "int"
             THEN Outcome("Failed to format table", TRUE, FALSE, d)
             ELSE IF IntOf(a.table_index) < 0 \/ IntOf(a.table_index) >= Len(d.tables)
             THEN Outcome("Invalid table index", TRUE, FALSE, d)
             ELSE LET res == ApplyTableStyle(d.tables[IntOf(a.table_index) + 1],
                                             a.has_header_row, a.border_style, a.shading)
                      d1 == [d EXCEPT !.tables[IntOf(a.table_index) + 1] = res.table]
                  IN  IF res.ok THEN Outcome("formatted successfully", TRUE, TRUE, d1)
                      ELSE Outcome("Failed to format table", TRUE, FALSE, d1)

\* set_table_cell_shading(filename, table_index, row_index, col_index, fill_color, pattern)
SetTableCellShading(f, m0, a) ==
    IF ~(Coercible(a.table_index) /\ Coercible(a.row_index) /\ Coercible(a.col_index))
    THEN Outcome("Invalid parameter", FALSE, FALSE, m0)
    ELSE IF FileCheck(f) # "ok" THEN Outcome(FileCheck(f), FALSE, FALSE, m0)
    ELSE LET d == f.content
             ti == IntOf(a.table_index)
             ri == IntOf(a.row_index)
             ci == IntOf(a.col_index)
         IN  IF ti < 0 \/ ti >= Len(d.tables)
             THEN Outcome("Invalid table index", TRUE, FALSE, d)
             ELSE IF ri < 0 \/ ri >= Len(d.tables[ti + 1])
             THEN Outcome("Invalid row index", TRUE, FALSE, d)
             ELSE IF ci < 0 \/ ci >= Len(d.tables[ti + 1][ri + 1])
             THEN Outcome("Invalid column index", TRUE, FALSE, d)
             ELSE LET res == SetCellShadingByPosition(d.tables[ti + 1], ri, ci,
                                                      StrColor(a.fill_color), a.pattern)
                      d1 == [d EXCEPT !.tables[ti + 1] = res.table]
                  IN  IF res.ok THEN Outcome("applied successfully", TRUE, TRUE, d1)
                      ELSE Outcome("Failed to apply cell shading", TRUE, FALSE, d1)

\* apply_table_alternating_rows(filename, table_index, color1, color2)
ApplyTableAlternatingRows(f, m0, a) ==
    IF ~Coercible(a.table_index)
    THEN Outcome("Invalid parameter", FALSE, FALSE, m0)
    ELSE IF FileCheck(f) # "ok" THEN Outcome(FileCheck(f), FALSE, FALSE, m0)
    ELSE LET d == f.content
             ti == IntOf(a.table_index)
         IN  IF ti < 0 \/ ti >= Len(d.tables)
             THEN Outcome("Invalid table index", TRUE, FALSE, d)
             ELSE LET res == ApplyAlternatingRowShading(d.tables[ti + 1],
                                 StrColor(a.color1), StrColor(a.color2))
                      d1 == [d EXCEPT !.tables[ti + 1] = res.table]
                  IN  IF res.ok THEN Outcome("applied successfully", TRUE, TRUE, d1)
                      ELSE Outcome("Failed to apply alternating row shading", TRUE, FALSE, d1)

\* highlight_table_header(filename, table_index, header_color, text_color)
HighlightTableHeader(f, m0, a) ==
    IF ~Coercible(a.table_index)
    THEN Outcome("Invalid parameter", FALSE, FALSE, m0)
    ELSE IF FileCheck(f) # "ok" THEN Outcome(FileCheck(f), FALSE, FALSE, m0)
    ELSE LET d == f.content
             ti == IntOf(a.table_index)
         IN  IF ti < 0 \/ ti >= Len(d.tables)
             THEN Outcome("Invalid table index", TRUE, FALSE, d)
             ELSE LET res == HighlightHeaderRow(d.tables[ti + 1],
                                 StrColor(a.header_color), a.text_color)
                      d1 == [d EXCEPT !.tables[ti + 1] = res.table]
                  IN  IF res.ok THEN Outcome("applied successfully", TRUE, TRUE, d1)
                      ELSE Outcome("Failed to apply header highlighting", TRUE, FALSE, d1)

(***************************************************************************)
(* Inputs and bounds                                                       *)
(***************************************************************************)
cRED == <<"F","F","0","0","0","0">>
cGREEN == <<"0","0","F","F","0","0">>
cWHITE == <<"F","F","F","F","F","F">>
cGREY == <<"F","2","F","2","F","2">>
cBLUE == <<"4","4","7","2","C","4">>
cLowerRed == <<"f","f","0","0","0","0">>                \* lower case
cHashGreen == <<"#","0","0","f","f","0","0">>           \* one leading #, lower case
cHashHashRed == <<"#","#","F","F","0","0","0","0">>     \* two leading #
cNotHex == <<"G","G","G","G","G","G">>                  \* 6 characters, none hex
cShort == <<"F","F","F">>                               \* 3 hex digits
cFive == <<"F","F","F","F","0">>                        \* 5 hex digits
cLong == <<"F","F","F","F","F","F","0","0">>            \* 8 hex digits
cName == <<"r","e","d">>                                \* a color name
cBroken == <<"F","F","<","0","0","0">>                  \* 6 characters, breaks XML
sSOLID == <<"s","o","l","i","d">>
sBadPattern == <<"p","c","t","<">>

\* Bound of the model: the number of calls in one behaviour
MaxCalls == 2

TcW == Elem("tcW", [w |-> <<"2","8","8","0">>, type |-> <<"d","x","a">>], <<>>)

\* A table as the host library hands it over: every cell has a tcPr holding its
\* width and no shading or borders; the header cells hold two runs, one of
\* them colored, the other rows one colored run.
NewCell(i, j) ==
    [tcPr |-> <<TcW>>,
     paragraphs |->
        IF i = 1
        THEN << <<Run(<<"H">>, NoFormat), Run(<<"d">>, [color |-> cGREEN])>>, <<>> >>
        ELSE << <<Run(<<"x">>, [color |-> cGREEN])>> >>]
NewTable(shape) == [i \in 1..Len(shape) |-> [j \in 1..shape[i] |-> NewCell(i, j)]]
NewDoc(paragraphs, tables) == [paragraphs |-> paragraphs, tables |-> tables, styles |-> {}]
NewFile(exists, writeable, content) ==
    [exists |-> exists, writeable |-> writeable, content |-> content]

ShdCount(cell) == Cardinality(ChildrenWithTag(cell.tcPr, "shd"))
BordersCount(cell) == Cardinality(ChildrenWithTag(cell.tcPr, "tcBorders"))
Edges(cell) == IF FirstChild(cell.tcPr, "tcBorders") = 0 THEN <<>>
               ELSE cell.tcPr[FirstChild(cell.tcPr, "tcBorders")].children
Cells(table) == UNION {{<<i, j>> : j \in 1..Len(table[i])} : i \in 1..Len(table)}
Shds(cell) == [k \in 1..ShdCount(cell) |->
                 LET idx == ChildrenWithTag(cell.tcPr, "shd")
                 IN  cell.tcPr[CHOOSE i \in idx :
                                  Cardinality({m \in idx : m <= i}) = k]]

(***************************************************************************)
(* The core functions called on the table object held in memory            *)
(***************************************************************************)
TheTable == mem.tables[1]
WithTable(t) == [mem EXCEPT !.tables[1] = t]

Call_set_cell_shading(r, c, fill_color, pattern, pattern_color) ==
    /\ calls < MaxCalls /\ calls' = calls + 1
    /\ r < Len(TheTable) /\ c < Len(TheTable[r + 1])
    /\ LET res == SetCellShading(TheTable[r + 1][c + 1], fill_color, pattern, pattern_color)
       IN  /\ mem' = WithTable([TheTable EXCEPT ![r + 1][c + 1] = res.cell])
           /\ last' = [op |-> "set_cell_shading", row |-> r, col |-> c,
                       fill |-> fill_color, pattern |-> pattern,
                       pattern_color |-> pattern_color, ok |-> res.ok]
    /\ UNCHANGED file

Call_set_cell_shading_by_position(r, c, fill_color, pattern) ==
    /\ calls < MaxCalls /\ calls' = calls + 1
    /\ LET res == SetCellShadingByPosition(TheTable, r, c, fill_color, pattern)
       IN  /\ mem' = WithTable(res.table)
           /\ last' = [op |-> "set_cell_shading_by_position", row |-> r, col |-> c,
                       fill |-> fill_color, pattern |-> pattern, ok |-> res.ok]
    /\ UNCHANGED file

Call_apply_alternating_row_shading(color1, color2) ==
    /\ calls < MaxCalls /\ calls' = calls + 1
    /\ LET res == ApplyAlternatingRowShading(TheTable, color1, color2)
       IN  /\ mem' = WithTable(res.table)
           /\ last' = [op |-> "apply_alternating_row_shading", color1 |-> color1,
                       color2 |-> color2, ok |-> res.ok]
    /\ UNCHANGED file

Call_highlight_header_row(header_color, text_color) ==
    /\ calls < MaxCalls /\ calls' = calls + 1
    /\ LET res == HighlightHeaderRow(TheTable, header_color, text_color)
       IN  /\ mem' = WithTable(res.table)
           /\ last' = [op |-> "highlight_header_row", header_color |-> header_color,
                       text_color |-> text_color, ok |-> res.ok]
    /\ UNCHANGED file

Call_apply_table_style(has_header_row, border_style, shading) ==
    /\ calls < MaxCalls /\ calls' = calls + 1
    /\ LET res == ApplyTableStyle(TheTable, has_header_row, border_style, shading)
       IN  /\ mem' = WithTable(res.table)
           /\ last' = [op |-> "apply_table_style", has_header_row |-> has_header_row,
                       border_style |-> border_style, shading |-> shading,
                       ok |-> res.ok]
    /\ UNCHANGED file

(***************************************************************************)
(* The exposed operations called on the file                               *)
(***************************************************************************)
\* What a call leaves behind: the Document object, the file if it was saved,
\* and the record of the call
Leaves(op, a, out) ==
    /\ mem' = out.mem
    /\ file' = IF out.saved THEN [file EXCEPT !.content = out.mem] ELSE file
    /\ last' = [op |-> op, args |-> a, result |-> out.result,
                opened |-> out.opened, saved |-> out.saved]

Tool_format_text(paragraph_index, start_pos, end_pos, fmt, font_size) ==
    /\ calls < MaxCalls /\ calls' = calls + 1
    /\ LET a == [paragraph_index |-> paragraph_index, start_pos |-> start_pos,
                 end_pos |-> end_pos, fmt |-> fmt, font_size |-> font_size]
       IN  Leaves("format_text", a, FormatText(file, mem, a))

Tool_create_custom_style(style_name, props, base_style) ==
    /\ calls < MaxCalls /\ calls' = calls + 1
    /\ LET a == [style_name |-> style_name, props |-> props, base_style |-> base_style]
       IN  Leaves("create_custom_style", a, CreateCustomStyle(file, mem, a))

Tool_format_table(table_index, has_header_row, border_style, shading) ==
    /\ calls < MaxCalls /\ calls' = calls + 1
    /\ LET a == [table_index |-> table_index, has_header_row |-> has_header_row,
                 border_style |-> border_style, shading |-> shading]
       IN  Leaves("format_table", a, FormatTable(file, mem, a))

Tool_set_table_cell_shading(table_index, row_index, col_index, fill_color, pattern) ==
    /\ calls < MaxCalls /\ calls' = calls + 1
    /\ LET a == [table_index |-> table_index, row_index |-> row_index,
                 col_index |-> col_index, fill_color |-> fill_color, pattern |-> pattern]
       IN  Leaves("set_table_cell_shading", a, SetTableCellShading(file, mem, a))

Tool_apply_table_alternating_rows(table_index, color1, color2) ==
    /\ calls < MaxCalls /\ calls' = calls + 1
    /\ LET a == [table_index |-> table_index, color1 |-> color1, color2 |-> color2]
       IN  Leaves("apply_table_alternating_rows", a, ApplyTableAlternatingRows(file, mem, a))

Tool_highlight_table_header(table_index, header_color, text_color) ==
    /\ calls < MaxCalls /\ calls' = calls + 1
    /\ LET a == [table_index |-> table_index, header_color |-> header_color,
                 text_color |-> text_color]
       IN  Leaves("highlight_table_header", a, HighlightTableHeader(file, mem, a))

(***************************************************************************)
(* Spec: the six exposed operations on a file holding one paragraph and    *)
(* one table; the file may be missing or read-only.                        *)
(***************************************************************************)
sAB == <<"a","b">>
ToolDoc == NewDoc(<< <<Run(sAB, [italic |-> TRUE])>> >>, <<NewTable(<<2, 1>>)>>)
ToolFiles == {NewFile(TRUE, TRUE, ToolDoc), NewFile(TRUE, FALSE, ToolDoc),
              NewFile(FALSE, FALSE, ToolDoc)}
ToolIndex == {IntArg(0), IntArg(1), BadArg}
ToolTableIndex == {IntArg(0), IntArg(-1), IntArg(1), StrArg(0), BadArg}
ToolRow == {IntArg(0), IntArg(1), IntArg(2), BadArg}
ToolCol == {IntArg(0), IntArg(1), BadArg}
ToolStart == {IntArg(0), BadArg}
ToolEnd == {IntArg(1), IntArg(3), BadArg}
ToolFontSize == {NoneArg, BadArg}

Init ==
    /\ file \in ToolFiles
    /\ mem = NewDoc(<<>>, <<>>)
    /\ last = [op |-> "none"]
    /\ calls = 0

Next ==
    \/ \E pi \in ToolIndex, sp \in ToolStart, ep \in ToolEnd, fs \in ToolFontSize :
          Tool_format_text(pi, sp, ep, [bold |-> TRUE], fs)
    \/ Tool_create_custom_style(<<"N","o","t","e">>, [bold |-> TRUE, size |-> 12], <<>>)
    \/ \E ti \in ToolTableIndex :
          Tool_format_table(ti, TRUE, <<"s","i","n","g","l","e">>, << <<cRED>> >>)
    \/ \E ti \in ToolIndex, ri \in ToolRow, ci \in ToolCol :
          Tool_set_table_cell_shading(ti, ri, ci, cGREEN, sCLEAR)
    \/ \E ti \in ToolIndex : Tool_apply_table_alternating_rows(ti, cWHITE, cGREY)
    \/ \E ti \in ToolIndex : Tool_highlight_table_header(ti, cBLUE, cWHITE)

Spec == Init /\ [][Next]_vars

(***************************************************************************)
(* SpecText: format_text on a writeable file of two paragraphs             *)
(***************************************************************************)
sHelloWorld == <<"H","e","l","l","o"," ","W","o","r","l","d">>
TextDoc == NewDoc(<< <<Run(sAB, [bold |-> TRUE, color |-> cRED]), Run(<<"c">>, NoFormat)>>,
                     <<Run(sHelloWorld, NoFormat)>> >>, <<>>)
TextIndex == {IntArg(0), IntArg(1), IntArg(2)}
TextStart == {IntArg(-1), IntArg(0), IntArg(1), IntArg(6)}
TextEnd == {IntArg(1), IntArg(3), IntArg(5), IntArg(11), IntArg(12)}
TextFormats == {<<[bold |-> TRUE], NoneArg>>,
                <<[italic |-> FALSE, color |-> cName, font_name |-> <<"A">>], IntArg(12)>>}

InitText ==
    /\ file = NewFile(TRUE, TRUE, TextDoc)
    /\ mem = NewDoc(<<>>, <<>>)
    /\ last = [op |-> "none"]
    /\ calls = 0

NextText ==
    \E pi \in TextIndex, sp \in TextStart, ep \in TextEnd, ff \in TextFormats :
        Tool_format_text(pi, sp, ep, ff[1], ff[2])

SpecText == InitText /\ [][NextText]_vars

(***************************************************************************)
(* SpecShade: set_cell_shading on the cell of a one-cell table, with the   *)
(* shading grid of apply_table_style as the other writer of shd children.  *)
(***************************************************************************)
ShadeFills == {StrColor(cRED), StrColor(cLowerRed), StrColor(cHashGreen),
               StrColor(cHashHashRed), StrColor(cNotHex), StrColor(cShort),
               StrColor(cLong), StrColor(cBroken), StrColor(<<>>), NoneColor,
               RgbColor(0, 128, 255)}
ShadePatterns == {sCLEAR, sSOLID, sBadPattern}
ShadePatternColors == {sAUTO, cRED}
ShadeGrids == {<< <<cGREY>> >>, << <<cLowerRed>> >>}

InitShade ==
    /\ file = NewFile(TRUE, TRUE, NewDoc(<<>>, <<NewTable(<<1>>)>>))
    /\ mem = file.content
    /\ last = [op |-> "none"]
    /\ calls = 0

NextShade ==
    \/ \E f \in ShadeFills, p \in ShadePatterns, pc \in ShadePatternColors :
          Call_set_cell_shading(0, 0, f, p, pc)
    \/ \E g \in ShadeGrids : Call_apply_table_style(FALSE, <<>>, g)

SpecShade == InitShade /\ [][NextShade]_vars

(***************************************************************************)
(* SpecTable: the table operations of core/tables.py on one table          *)
(***************************************************************************)
TableShapes == {<<2, 1>>, <<1, 1, 1>>}
RowInputs == -1..3
ColInputs == -1..2
TableFills == {StrColor(cRED), StrColor(cHashGreen)}
RowColors == {StrColor(cWHITE), StrColor(cGREY), StrColor(cLowerRed)}
TextColors == {cWHITE, cNotHex, cShort, cFive, cLong, <<>>}
BorderStyles == {<<>>, <<"n","o","n","e">>, <<"s","i","n","g","l","e">>,
                 <<"D","o","u","b","l","e">>, <<"t","h","i","c","k">>,
                 <<"d","o","t","t","e","d">>}
ShadingGrids == {<<>>, << <<cGREY, cRED>>, <<cBroken>>, <<cGREY>>, <<cGREY>> >>}

InitTable ==
    /\ \E shape \in TableShapes :
          file = NewFile(TRUE, TRUE, NewDoc(<<>>, <<NewTable(shape)>>))
    /\ mem = file.content
    /\ last = [op |-> "none"]
    /\ calls = 0

NextTable ==
    \/ \E r \in RowInputs, c \in ColInputs, f \in TableFills :
          Call_set_cell_shading_by_position(r, c, f, sCLEAR)
    \/ \E f \in TableFills : Call_set_cell_shading(0, 0, f, sSOLID, sAUTO)
    \/ \E c1 \in RowColors, c2 \in RowColors :
          Call_apply_alternating_row_shading(c1, c2)
    \/ \E h \in BOOLEAN, b \in BorderStyles, g \in ShadingGrids :
          Call_apply_table_style(h, b, g)
    \/ \E t \in TextColors : Call_highlight_header_row(StrColor(cBLUE), t)

SpecTable == InitTable /\ [][NextTable]_vars

(***************************************************************************)
(* SpecRaise: the two table-wide loops when the mutation of one cell fails. *)
(* `raising` is the position of a cell on which the document model raises   *)
(* as soon as the cell is touched (cell._tc.get_or_add_tcPr()), NoRaise if  *)
(* there is none. The exception goes to the innermost enclosing try.        *)
(***************************************************************************)
NoRaise == <<0, 0>>
\* the order in which "for row in table.rows: for cell in row.cells" visits
VisitedBefore(ij, kl) == ij[1] < kl[1] \/ (ij[1] = kl[1] /\ ij[2] < kl[2])

\* apply_table_style: set_cell_border is called outside any per-cell try, so
\* the exception leaves the loop for line 104 and False is returned; the
\* cells visited before have their edges, the others and the shading grid are
\* not reached. In the shading grid the per-cell except (line 99) skips the cell.
ApplyTableStyleRaising(table, has_header_row, border_style, shading, raising) ==
    LET headed == StyleHeader(table, has_header_row)
        kwargs == << <<"top", TRUE>>, <<"bottom", TRUE>>, <<"left", TRUE>>,
                     <<"right", TRUE>>, <<"val", ValMap(border_style)>>,
                     <<"color", <<"0","0","0","0","0","0">> >> >>
        bordered(cell, i, j) == IF VisitedBefore(<<i, j>>, raising)
                                THEN SetCellBorder(cell, kwargs) ELSE cell
        shaded(cell, i, j) == IF <<i, j>> = raising THEN cell
                              ELSE StyleShading(headed, shading)[i][j]
    IN  IF raising \notin Cells(table)
        THEN ApplyTableStyle(table, has_header_row, border_style, shading)
        ELSE IF border_style # <<>>
             THEN [table |-> MapCells(headed, bordered), ok |-> FALSE]
             ELSE [table |-> MapCells(headed, shaded), ok |-> TRUE]

\* apply_alternating_row_shading: set_cell_shading catches the exception
\* itself (line 193) and returns False, which the loop does not look at.
ApplyAlternatingRowShadingRaising(table, color1, color2, raising) ==
    LET f(cell, i, j) ==
            IF <<i, j>> = raising THEN cell
            ELSE ApplyAlternatingRowShading(table, color1, color2).table[i][j]
    IN  [table |-> MapCells(table, f), ok |-> TRUE]

Call_apply_table_style_raising(has_header_row, border_style, shading, raising) ==
    /\ calls < MaxCalls /\ calls' = calls + 1
    /\ LET res == ApplyTableStyleRaising(TheTable, has_header_row, border_style,
                                         shading, raising)
       IN  /\ mem' = WithTable(res.table)
           /\ last' = [op |-> "apply_table_style", has_header_row |-> has_header_row,
                       border_style |-> border_style, shading |-> shading,
                       raising |-> raising, ok |-> res.ok]
    /\ UNCHANGED file

Call_apply_alternating_row_shading_raising(color1, color2, raising) ==
    /\ calls < MaxCalls /\ calls' = calls + 1
    /\ LET res == ApplyAlternatingRowShadingRaising(TheTable, color1, color2, raising)
       IN  /\ mem' = WithTable(res.table)
           /\ last' = [op |-> "apply_alternating_row_shading", color1 |-> color1,
                       color2 |-> color2, raising |-> raising, ok |-> res.ok]
    /\ UNCHANGED file

RaiseShapes == {<<2, 1>>, <<1, 1, 1>>, <<2, 2>>}
RaiseAt == {NoRaise, <<1, 1>>, <<1, 2>>, <<2, 1>>}
RaiseColors == {StrColor(cWHITE), StrColor(cGREY), StrColor(cBroken)}
RaiseBorderStyles == {<<>>, <<"s","i","n","g","l","e">>, <<"t","h","i","c","k">>}
RaiseGrids == {<<>>, << <<cGREY, cRED>>, <<cGREY, cRED>> >>}

InitRaise ==
    /\ \E shape \in RaiseShapes :
          file = NewFile(TRUE, TRUE, NewDoc(<<>>, <<NewTable(shape)>>))
    /\ mem = file.content
    /\ last = [op |-> "none"]
    /\ calls = 0

NextRaise ==
    \/ \E h \in BOOLEAN, b \in RaiseBorderStyles, g \in RaiseGrids, x \in RaiseAt :
          Call_apply_table_style_raising(h, b, g, x)
    \/ \E c1 \in RaiseColors, c2 \in RaiseColors, x \in RaiseAt :
          Call_apply_alternating_row_shading_raising(c1, c2, x)

SpecRaise == InitRaise /\ [][NextRaise]_vars

(***************************************************************************)
(* Properties                                                              *)
(***************************************************************************)
IsSixHex(s) == Len(s) = 6 /\ IsHexString(s)
\* two strings of 6 hex digits naming the same RGB value
SameColor(a, b) == IsSixHex(a) /\ IsSixHex(b) /\ Int16(a) = Int16(b)
CellAt(table, ij) == table[ij[1]][ij[2]]
HasFill(shd) == "fill" \in DOMAIN shd.attrs
ValidFills == {StrColor(cRED), StrColor(cLowerRed), StrColor(cGREY)}
SafePatterns == {sCLEAR, sSOLID}

ToolOps == {"format_text", "create_custom_style", "format_table",
            "set_table_cell_shading", "apply_table_alternating_rows",
            "highlight_table_header"}
\* an index argument that int() rejects or that lies outside [0, n)
BadIndex(x, n) == ~Coercible(x) \/ IntOf(x) < 0 \/ IntOf(x) >= n
BadCellIndex(tables, a) ==
    IF BadIndex(a.table_index, Len(tables)) THEN TRUE
    ELSE IF BadIndex(a.row_index, Len(tables[IntOf(a.table_index) + 1])) THEN TRUE
    ELSE BadIndex(a.col_index,
                  Len(tables[IntOf(a.table_index) + 1][IntOf(a.row_index) + 1]))
\* a validation of the call fails: the file is missing or not writeable, an
\* index or position is not coercible to an integer, or an index is out of range
ValidationFails(f, call) ==
    \/ ~f.exists
    \/ ~f.writeable
    \/ /\ call.op = "format_text"
       /\ \/ BadIndex(call.args.paragraph_index, Len(f.content.paragraphs))
          \/ ~Coercible(call.args.start_pos)
          \/ ~Coercible(call.args.end_pos)
          \/ call.args.font_size.kind = "bad"
    \/ /\ call.op \in {"format_table", "apply_table_alternating_rows",
                       "highlight_table_header"}
       /\ BadIndex(call.args.table_index, Len(f.content.tables))
    \/ /\ call.op = "set_table_cell_shading"
       /\ BadCellIndex(f.content.tables, call.args)
ErrorMessages == {"Invalid parameter", "does not exist", "Cannot modify document",
                  "Invalid paragraph index", "Invalid table index",
                  "Invalid row index", "Invalid column index",
                  "Failed to format table"}

\* C1: when a validation of an exposed operation fails (file missing, file not
\* writeable, index or position not coercible to an integer, index out of
\* range), the operation returns an error message, the Document object in
\* memory is as loaded (or none was loaded), and the file is not saved.
C1_ValidationFailureChangesNothing ==
    [][(/\ last'.op \in ToolOps
        /\ ValidationFails(file, last'))
       => /\ last'.result \in ErrorMessages
          /\ last'.saved = FALSE
          /\ file' = file
          /\ mem' = IF last'.opened THEN file.content ELSE mem]_vars

\* After an earlier call has changed the file, set_table_cell_shading has
\* refused a column that exists in row 0 but not in row 1.
C1_Witness ==
    /\ last.op = "set_table_cell_shading"
    /\ last.args.row_index = IntArg(1) /\ last.args.col_index = IntArg(1)
    /\ last.result = "Invalid column index"
    /\ last.opened /\ ~last.saved
    /\ file.content # ToolDoc
    /\ mem = file.content

TextArgsValidIndex(f, call) ==
    /\ call.op = "format_text"
    /\ Coercible(call.args.paragraph_index) /\ Coercible(call.args.start_pos)
    /\ Coercible(call.args.end_pos)
    /\ ~BadIndex(call.args.paragraph_index, Len(f.content.paragraphs))
ParagraphOf(d, call) == d.paragraphs[IntOf(call.args.paragraph_index) + 1]

\* C2: format_text with startPos >= endPos, startPos < 0 or endPos > len(text)
\* returns an error message and leaves the paragraph's runs (their number, text
\* and formatting) exactly as they were.
C2_BadRangeLeavesRuns ==
    [][(/\ TextArgsValidIndex(file, last')
        /\ LET sp == IntOf(last'.args.start_pos)
               ep == IntOf(last'.args.end_pos)
           IN  sp >= ep \/ sp < 0
               \/ ep > Len(ParagraphText(ParagraphOf(file.content, last'))))
       => /\ last'.result = "Invalid text positions"
          /\ last'.saved = FALSE
          /\ ParagraphOf(mem', last') = ParagraphOf(file.content, last')
          /\ ParagraphOf(file'.content, last') = ParagraphOf(file.content, last')]_vars

\* An empty range (1, 1) has been refused on a paragraph that an earlier call
\* had formatted.
C2_Witness ==
    /\ last.op = "format_text"
    /\ last.args.start_pos = IntArg(1) /\ last.args.end_pos = IntArg(1)
    /\ last.result = "Invalid text positions"
    /\ ParagraphOf(file.content, last) # ParagraphOf(TextDoc, last)
    /\ ParagraphOf(mem, last) = ParagraphOf(file.content, last)

NonEmptyRun(r) == r.text # <<>>

\* C3: for a valid range 0 <= startPos < endPos <= len(text), after format_text
\* the paragraph's runs are exactly the non-empty ones among the prefix
\* text[0:startPos] (unformatted), the target text[startPos:endPos] (with the
\* requested format) and the suffix text[endPos:] (unformatted), in that order.
C3_ExactlyPrefixTargetSuffix ==
    [][(/\ TextArgsValidIndex(file, last')
        /\ LET sp == IntOf(last'.args.start_pos)
               ep == IntOf(last'.args.end_pos)
           IN  0 <= sp /\ sp < ep
               /\ ep <= Len(ParagraphText(ParagraphOf(file.content, last'))))
       => LET sp == IntOf(last'.args.start_pos)
              ep == IntOf(last'.args.end_pos)
              text == ParagraphText(ParagraphOf(file.content, last'))
              want == SelectSeq(<<Run(Slice(text, 0, sp), NoFormat),
                                  Run(Slice(text, sp, ep), NoFormat),
                                  Run(Slice(text, ep, Len(text)), NoFormat)>>,
                                NonEmptyRun)
              target == IF sp > 0 THEN 2 ELSE 1
              new == ParagraphOf(file'.content, last')
          IN  /\ Len(new) = Len(want)
              /\ \A k \in 1..Len(want) :
                    /\ new[k].text = want[k].text
                    /\ k # target => new[k].rPr = NoFormat
              /\ \A key \in DOMAIN last'.args.fmt \cap {"bold", "italic", "underline"} :
                    /\ key \in DOMAIN new[target].rPr
                    /\ new[target].rPr[key] = last'.args.fmt[key]]_vars

\* C4: applying set_cell_shading twice to a cell with two different valid fill
\* colors leaves exactly one shd child in the cell's tcPr, carrying the second
\* color; applying it twice with the same arguments gives the same cell as
\* applying it once.  Stated for every cell the table operations can produce.
C4_ShadeTwiceLeavesOne ==
    \A ij \in Cells(TheTable), a \in ValidFills, b \in ValidFills, p \in SafePatterns :
        LET once == SetCellShading(CellAt(TheTable, ij), a, p, sAUTO).cell
            twice == SetCellShading(once, b, p, sAUTO).cell
            again == SetCellShading(once, a, p, sAUTO).cell
        IN  /\ a # b => /\ ShdCount(twice) = 1
                        /\ HasFill(Shds(twice)[1])
                        /\ SameColor(Shds(twice)[1].attrs.fill, b.s)
            /\ again = once

\* C5: in every state reachable from a table without shading or borders, every
\* cell's tcPr holds at most one shd child and at most one tcBorders child.
C5_AtMostOneShdAndBorders ==
    \A ij \in Cells(TheTable) :
        /\ ShdCount(CellAt(TheTable, ij)) <= 1
        /\ BordersCount(CellAt(TheTable, ij)) <= 1

OutOfRange(table, r, c) ==
    IF 0 <= r /\ r < Len(table) THEN ~(0 <= c /\ c < Len(table[r + 1])) ELSE TRUE

\* C6: set_cell_shading_by_position with a row index outside [0, R) or a column
\* index outside [0, cells of that row) returns False and leaves the shd
\* children of every cell as they were.
C6_OutOfRangeLeavesShading ==
    [][(/\ last'.op = "set_cell_shading_by_position"
        /\ OutOfRange(TheTable, last'.row, last'.col))
       => /\ last'.ok = FALSE
          /\ Cells(TheTable') = Cells(TheTable)
          /\ \A ij \in Cells(TheTable) :
                Shds(CellAt(TheTable', ij)) = Shds(CellAt(TheTable, ij))]_vars

\* A column index that is valid in row 0 but not in row 1 has been refused on a
\* table that already carries shading.
C6_Witness ==
    /\ last.op = "set_cell_shading_by_position"
    /\ Len(TheTable) = 2 /\ Len(TheTable[1]) = 2 /\ Len(TheTable[2]) = 1
    /\ last.row = 1 /\ last.col = 1
    /\ last.ok = FALSE
    /\ \E ij \in Cells(TheTable) : ShdCount(CellAt(TheTable, ij)) >= 1

RunsOf(cell) ==
    UNION {{<<p, q>> : q \in 1..Len(cell.paragraphs[p])} : p \in 1..Len(cell.paragraphs)}
FontColor(run) == IF "color" \in DOMAIN run.rPr THEN <<run.rPr.color>> ELSE <<>>

\* C8: highlight_header_row with a text color that is not a 6-hex-digit string
\* shades every cell of row 0 with the header color, makes every run of row 0
\* bold, leaves the font color of those runs as it was, and changes no other row.
C8_BadTextColorKeepsFontColor ==
    [][(/\ last'.op = "highlight_header_row"
        /\ ~IsSixHex(last'.text_color))
       => /\ Cells(TheTable') = Cells(TheTable)
          /\ \A ij \in Cells(TheTable) :
                LET old == CellAt(TheTable, ij)
                    new == CellAt(TheTable', ij)
                IN  IF ij[1] # 1 THEN new = old
                    ELSE /\ \E k \in 1..ShdCount(new) :
                               /\ HasFill(Shds(new)[k])
                               /\ SameColor(Shds(new)[k].attrs.fill, last'.header_color.s)
                         /\ RunsOf(new) = RunsOf(old)
                         /\ \A pq \in RunsOf(old) :
                               LET r0 == old.paragraphs[pq[1]][pq[2]]
                                   r1 == new.paragraphs[pq[1]][pq[2]]
                               IN  /\ "bold" \in DOMAIN r1.rPr /\ r1.rPr.bold = TRUE
                                   /\ FontColor(r1) = FontColor(r0)]_vars

\* C9: set_cell_shading writes a fill attribute only when the string, with
\* leading "#" removed and in upper case, is exactly 6 hex digits, so every
\* fill it writes is 6 upper-case hex digits; for any other string it writes no
\* fill but still appends the shd with the given pattern and pattern color.
\* (Stated for values that can stand in an XML attribute.)
C9_FillOnlyIfSixHex ==
    (/\ last.op = "set_cell_shading"
     /\ last.fill.kind = "str" /\ XmlSafe(last.fill.s)
     /\ XmlSafe(last.pattern) /\ XmlSafe(last.pattern_color))
    => LET tcPr == TheTable[last.row + 1][last.col + 1].tcPr
           shd == tcPr[Len(tcPr)]
           valid == IsSixHex(Upper(LStrip(last.fill.s, "#")))
       IN  /\ shd.tag = "shd"
           /\ shd.attrs.val = last.pattern
           /\ shd.attrs.color = last.pattern_color
           /\ HasFill(shd) => valid
           /\ HasFill(shd) => IsSixHex(shd.attrs.fill) /\ Upper(shd.attrs.fill) = shd.attrs.fill

\* the style value the keyword stands for, read without regard to case
ExpectedBorderVal(keyword) ==
    LET k == Lower(keyword)
    IN  CASE k = <<"n","o","n","e">> -> <<"n","i","l">>
          [] k = <<"d","o","u","b","l","e">> -> <<"d","o","u","b","l","e">>
          [] k = <<"t","h","i","c","k">> -> <<"t","h","i","c","k">>
          [] OTHER -> <<"s","i","n","g","l","e">>

\* C10: apply_table_style with a border style adds to every cell one edge node
\* for each of top, bottom, left and right, each with the style value the
\* keyword maps to (none: nil, single, double, thick; anything else: single).
C10_BordersOnEveryCell ==
    [][(/\ last'.op = "apply_table_style"
        /\ last'.border_style # <<>>)
       => /\ Cells(TheTable') = Cells(TheTable)
          /\ \A ij \in Cells(TheTable) :
                LET old == Edges(CellAt(TheTable, ij))
                    new == Edges(CellAt(TheTable', ij))
                IN  /\ Len(new) = Len(old) + 4
                    /\ \A e \in EdgeKeys :
                          /\ Cardinality({k \in (Len(old) + 1)..Len(new) :
                                            new[k].tag = e}) = 1
                          /\ \A k \in (Len(old) + 1)..Len(new) :
                                new[k].attrs.val = ExpectedBorderVal(last'.border_style)]_vars

\* A mixed-case keyword has put four "double" edges on every cell.
C10_Witness ==
    /\ last.op = "apply_table_style"
    /\ last.border_style = <<"D","o","u","b","l","e">>
    /\ \A ij \in Cells(TheTable) :
          /\ Len(Edges(CellAt(TheTable, ij))) >= 4
          /\ \A k \in 1..Len(Edges(CellAt(TheTable, ij))) :
                Edges(CellAt(TheTable, ij))[k].attrs.val = <<"d","o","u","b","l","e">>

\* the number of edge nodes of a name in a border collection
EdgeCount(edges, name) == Cardinality({k \in 1..Len(edges) : edges[k].tag = name})
\* the number of border applications a cell's edges stand for
Applications(cell) == Len(Edges(cell)) \div 4
BorderApplication == last'.op = "apply_table_style" /\ last'.border_style # <<>>

\* C11: border application is additive. After n applications of borders to a
\* table every cell has a single border collection holding exactly 4n edge
\* nodes, n of each edge name; an application keeps the earlier edge nodes
\* unchanged and appends its four after them, and nothing else touches them.
C11_BordersAdditive ==
    /\ [](\A ij \in Cells(TheTable) :
            LET cell == CellAt(TheTable, ij)
                n == Applications(CellAt(TheTable, <<1, 1>>))
            IN  /\ BordersCount(cell) = (IF n = 0 THEN 0 ELSE 1)
                /\ Len(Edges(cell)) = 4 * n
                /\ \A e \in EdgeKeys : EdgeCount(Edges(cell), e) = n)
    /\ [][\A ij \in Cells(TheTable) :
            LET old == Edges(CellAt(TheTable, ij))
                new == Edges(CellAt(TheTable', ij))
            IN  IF BorderApplication
                THEN /\ Len(new) = Len(old) + 4
                     /\ SubSeq(new, 1, Len(old)) = old
                     /\ Applications(CellAt(TheTable', ij))
                          = Applications(CellAt(TheTable, ij)) + 1
                ELSE new = old]_vars

\* Two applications with different styles: every cell holds the four "nil"
\* edges of the first followed by the four "double" edges of the second.
C11_Witness ==
    /\ last.op = "apply_table_style"
    /\ \A ij \in Cells(TheTable) :
          LET edges == Edges(CellAt(TheTable, ij))
          IN  /\ Len(edges) = 8
              /\ \A k \in 1..4 : edges[k].attrs.val = <<"n","i","l">>
              /\ \A k \in 5..8 : edges[k].attrs.val = <<"d","o","u","b","l","e">>

\* the last shading of the cell carries the color, written in capitals
ShadedWith(cell, color) ==
    LET shds == Shds(cell)
    IN  /\ Len(shds) >= 1
        /\ HasFill(shds[Len(shds)])
        /\ shds[Len(shds)].attrs.fill = Upper(color)
\* a cell whose mutation fails in the call: the document model raises on it,
\* or (alternating rows) the color of its row cannot be written as XML
FailsAt(table, ij) ==
    \/ last'.raising = ij
    \/ /\ last'.op = "apply_alternating_row_shading"
       /\ ~XmlSafe((IF (ij[1] - 1) % 2 = 0 THEN last'.color1 ELSE last'.color2).s)

\* C12: the table-wide operations are best-effort. When the mutation of one
\* cell fails in the border loop of apply_table_style or in
\* apply_alternating_row_shading, every other cell of the table is still
\* processed (it gets its four edges, or its row's color), and the operation,
\* having gone through all the cells, reports success.
C12_BestEffort ==
    [][(/\ last'.op \in {"apply_table_style", "apply_alternating_row_shading"}
        /\ last'.op = "apply_table_style" => last'.border_style # <<>>
        /\ \E ij \in Cells(TheTable) : FailsAt(TheTable, ij))
       => /\ last'.ok
          /\ \A ij \in Cells(TheTable) :
                ~FailsAt(TheTable, ij) =>
                   IF last'.op = "apply_table_style"
                   THEN Len(Edges(CellAt(TheTable', ij)))
                          = Len(Edges(CellAt(TheTable, ij))) + 4
                   ELSE ShadedWith(CellAt(TheTable', ij),
                                   (IF (ij[1] - 1) % 2 = 0 THEN last'.color1
                                    ELSE last'.color2).s)]_vars

\* the texts of the paragraphs of a document, in order
Texts(d) == [p \in 1..Len(d.paragraphs) |-> ParagraphText(d.paragraphs[p])]
\* the paragraphs other than the one the call names are the same in both
SameElsewhere(d, e, call) ==
    /\ Len(e.paragraphs) = Len(d.paragraphs)
    /\ \A p \in 1..Len(d.paragraphs) :
          (Coercible(call.args.paragraph_index)
             /\ p = IntOf(call.args.paragraph_index) + 1)
          \/ e.paragraphs[p] = d.paragraphs[p]

\* C13: format_text never changes a paragraph's text. After every call, valid
\* or not, the run texts of every paragraph concatenate to what they did
\* before the call, in the saved file and in the document the call worked on,
\* and no paragraph other than the one at paragraph_index is changed.
C13_TextPreserved ==
    [][last'.op = "format_text"
       => /\ Texts(file'.content) = Texts(file.content)
          /\ SameElsewhere(file.content, file'.content, last')
          /\ last'.opened => /\ Texts(mem') = Texts(file.content)
                             /\ SameElsewhere(file.content, mem', last')]_vars

\* A second successful call has split "ab" + "c" at (1, 3) after the first had
\* formatted (0, 1): the runs are others, the text is still "abc", and the
\* paragraph "Hello World" is as it was.
C13_Witness ==
    /\ last.op = "format_text" /\ last.saved
    /\ last.args.paragraph_index = IntArg(0)
    /\ last.args.start_pos = IntArg(1) /\ last.args.end_pos = IntArg(3)
    /\ Len(file.content.paragraphs[1]) > 4
    /\ ParagraphText(file.content.paragraphs[1]) = <<"a", "b", "c">>
    /\ file.content.paragraphs[2] = TextDoc.paragraphs[2]

=============================================================================
